---- MODULE Spec2Model ----
(***************************************************************************)
(* Model of confluent_kafka/schema_registry/protobuf.py: the varint codec, *)
(* the message-index computation, the Schema Registry wire framing, and    *)
(* the ProtobufSerializer / ProtobufDeserializer objects.                  *)
(***************************************************************************)
EXTENDS Integers, Sequences, FiniteSets, TLC

VARIABLES
    \* ---- varint codec (SpecVarint)
    vval,       \* the integer handed to _write_varint
    vzig,       \* the zigzag argument
    vtrail,     \* bytes that follow the varint in the buffer that is decoded
    vwritten,   \* outcome of _write_varint
    vdecoded,   \* outcome of _decode_varint
    vpc,        \* "start" | "written" | "decoded"
    \* ---- message index (SpecIndex)
    ifile,      \* the FileDescriptor: its types and how they nest
    idesc,      \* the MessageDescriptor handed to _create_msg_index
    izig,       \* the zigzag argument of the index encoding
    iindex,     \* outcome of _create_msg_index
    iencoded,   \* outcome of _encode_varints on that index
    idecoded,   \* outcome of _decode_index on the encoded bytes
    ipc,        \* "start" | "indexed" | "encoded" | "decoded"
    \* ---- ProtobufDeserializer.__call__ on arbitrary input (SpecDeser)
    dself,      \* the constructed ProtobufDeserializer
    dvalue,     \* the value handed to it
    dresult,    \* outcome of the call
    dpc,        \* "start" | "done"
    \* ---- construction (SpecConfig)
    cconf,      \* the conf argument
    ctype,      \* the message type argument
    cser,       \* outcome of ProtobufSerializer.__init__
    cdeser,     \* outcome of ProtobufDeserializer.__init__
    \* ---- one serializer and one deserializer in use (Spec, SpecWire)
    ser,        \* the ProtobufSerializer object
    deser,      \* the ProtobufDeserializer object
    frames,     \* the ProtobufSerializer.__call__ in progress of each caller
    wire,       \* the latest ProtobufSerializer.__call__ that ended: arguments, store calls, outcome
    received,   \* outcome of ProtobufDeserializer.__call__ on the bytes of wire
    succeeded   \* history: the subjects for which a serialize call has returned bytes

varintVars == <<vval, vzig, vtrail, vwritten, vdecoded, vpc>>

indexVars == <<ifile, idesc, izig, iindex, iencoded, idecoded, ipc>>

deserVars == <<dself, dvalue, dresult, dpc>>

configVars == <<cconf, ctype, cser, cdeser>>

objectVars == <<ser, deser, frames, wire, received, succeeded>>

vars == <<varintVars, indexVars, deserVars, configVars, objectVars>>

(***************************************************************************)
(* Python integers.  A Python int is unbounded, and the codec uses only    *)
(* bitwise operators and shifts on it, so a value is kept in two's         *)
(* complement: b holds the low bits (least significant first) and s is the *)
(* bit that repeats forever above them (0: non-negative, 1: negative).     *)
(***************************************************************************)
Max(a, b) == IF a >= b THEN a ELSE b

Norm(x) ==
    LET idx == {i \in 1..Len(x.b) : x.b[i] # x.s}
        n   == IF idx = {} THEN 0 ELSE CHOOSE i \in idx : \A j \in idx : j <= i
    IN  [b |-> SubSeq(x.b, 1, n), s |-> x.s]

BitAt(x, i) == IF i <= Len(x.b) THEN x.b[i] ELSE x.s

Zero == [b |-> <<>>, s |-> 0]

MinusOne == [b |-> <<>>, s |-> 1]

RECURSIVE NatBits(_)
NatBits(n) == IF n = 0 THEN <<>> ELSE <<n % 2>> \o NatBits(n \div 2)

RECURSIVE BitsVal(_)
BitsVal(bs) == IF bs = <<>> THEN 0 ELSE bs[1] + 2 * BitsVal(Tail(bs))

\* ~x
BitNot(x) == [b |-> [i \in 1..Len(x.b) |-> 1 - x.b[i]], s |-> 1 - x.s]

\* a small integer as a Python int
FromInt(n) ==
    IF n >= 0 THEN [b |-> NatBits(n), s |-> 0]
    ELSE BitNot([b |-> NatBits(-n - 1), s |-> 0])

\* a Python int that fits the checker's integers, as an integer
ToInt(x) == BitsVal(x.b) - x.s * (2 ^ Len(x.b))

\* x & y
BitAnd(x, y) ==
    Norm([b |-> [i \in 1..Max(Len(x.b), Len(y.b)) |-> BitAt(x, i) * BitAt(y, i)],
          s |-> x.s * y.s])

\* x | y
BitOr(x, y) ==
    Norm([b |-> [i \in 1..Max(Len(x.b), Len(y.b)) |->
                    BitAt(x, i) + BitAt(y, i) - BitAt(x, i) * BitAt(y, i)],
          s |-> x.s + y.s - x.s * y.s])

\* x ^ y
BitXor(x, y) ==
    Norm([b |-> [i \in 1..Max(Len(x.b), Len(y.b)) |-> (BitAt(x, i) + BitAt(y, i)) % 2],
          s |-> (x.s + y.s) % 2])

\* x << k
Shl(x, k) == Norm([b |-> [i \in 1..k |-> 0] \o x.b, s |-> x.s])

\* x >> k (Python's shift keeps the sign)
Shr(x, k) ==
    Norm([b |-> IF k >= Len(x.b) THEN <<>> ELSE SubSeq(x.b, k + 1, Len(x.b)),
          s |-> x.s])

\* x + 1
Inc(x) ==
    LET ext == x.b \o <<x.s>>
        zs  == {i \in 1..Len(ext) : ext[i] = 0}
    IN  IF zs = {} THEN Zero
        ELSE LET k == CHOOSE i \in zs : \A j \in zs : i <= j
             IN  Norm([b |-> [i \in 1..Len(ext) |->
                                 IF i < k THEN 0 ELSE IF i = k THEN 1 ELSE ext[i]],
                       s |-> x.s])

\* -x
Neg(x) == Inc(BitNot(x))

IsNeg(x) == x.s = 1

(***************************************************************************)
(* ProtobufSerializer._write_varint                                        *)
(***************************************************************************)
\* the shift of the zig-zag transform, (val << 1) ^ (val >> 63)
ZigZagShift == 63

\* the while loop of _write_varint.  ret is FALSE when the loop never ends:
\* a negative val reaches -1, where val >>= 7 leaves it unchanged and
\* (val & ~0x7f) != 0 stays true, so 0xff is written until memory runs out.
RECURSIVE WriteLoop(_)
WriteLoop(val) ==
    IF BitAnd(val, BitNot(FromInt(127))) = Zero
    THEN [ret |-> TRUE, bytes |-> <<ToInt(val)>>]
    ELSE IF Shr(val, 7) = val
    THEN [ret |-> FALSE, bytes |-> <<>>]
    ELSE LET Rest(r) ==
                 [ret   |-> r.ret,
                  bytes |-> <<ToInt(BitOr(BitAnd(val, FromInt(127)), FromInt(128)))>>
                                \o r.bytes]
         IN  Rest(WriteLoop(Shr(val, 7)))

\* a 32-bit zig-zag shift in place of the 64-bit one
_write_varint_shift31(buf, val, zigzag) ==
    LET Written(r) == [ret |-> r.ret, buf |-> buf \o r.bytes]
    IN  Written(WriteLoop(IF zigzag THEN BitXor(Shl(val, 1), Shr(val, 31)) ELSE val))

_write_varint(buf, val, zigzag) ==
    LET Written(r) == [ret |-> r.ret, buf |-> buf \o r.bytes]
    IN  Written(WriteLoop(IF zigzag THEN BitXor(Shl(val, 1), Shr(val, ZigZagShift)) ELSE val))

(***************************************************************************)
(* ProtobufDeserializer._read_byte and _decode_varint.  A reader is the    *)
(* BytesIO: its bytes and the number of bytes already read.                *)
(***************************************************************************)
_read_byte(buf) ==
    IF buf.pos >= Len(buf.data)
    THEN [err |-> "EOFError", i |-> 0, buf |-> buf]
    ELSE [err |-> "none", i |-> buf.data[buf.pos + 1],
          buf |-> [data |-> buf.data, pos |-> buf.pos + 1]]

RECURSIVE DecodeLoop(_, _, _)
DecodeLoop(buf, value, shift) ==
    LET Accumulate(r, v) ==
            IF BitAnd(FromInt(r.i), FromInt(128)) = Zero
            THEN [err |-> "none", value |-> v, buf |-> r.buf]
            ELSE DecodeLoop(r.buf, v, shift + 7)
        Read(r) ==
            IF r.err # "none"
            THEN [err |-> "EOFError", value |-> Zero, buf |-> r.buf]
            ELSE Accumulate(r, BitOr(value, Shl(BitAnd(FromInt(r.i), FromInt(127)), shift)))
    IN  Read(_read_byte(buf))

_decode_varint(buf, zigzag) ==
    LET Decoded(r) ==
            IF r.err # "none" THEN r
            ELSE [err   |-> "none",
                  value |-> IF zigzag
                            THEN BitXor(Shr(r.value, 1), Neg(BitAnd(r.value, FromInt(1))))
                            ELSE r.value,
                  buf   |-> r.buf]
    IN  Decoded(DecodeLoop(buf, Zero, 0))

(***************************************************************************)
(* ProtobufSerializer._encode_varints.  ints holds small integers (list    *)
(* positions); err is "AssertionError" for an empty list.                  *)
(***************************************************************************)
RECURSIVE EncodeEach(_, _, _)
EncodeEach(w, ints, zigzag) ==
    IF ints = <<>> \/ ~w.ret THEN w
    ELSE EncodeEach(_write_varint(w.buf, FromInt(Head(ints)), zigzag), Tail(ints), zigzag)

\* the length prefix written as a plain varint whatever the zigzag argument
_encode_varints_plain_len(buf, ints, zigzag) ==
    LET Encoded(w) == [err |-> "none", ret |-> w.ret, buf |-> w.buf]
    IN  IF Len(ints) = 0 THEN [err |-> "AssertionError", ret |-> TRUE, buf |-> buf]
        ELSE IF ints = <<0>> THEN [err |-> "none", ret |-> TRUE, buf |-> buf \o <<0>>]
        ELSE Encoded(EncodeEach(_write_varint(buf, FromInt(Len(ints)), FALSE), ints, zigzag))

\* the reserved one-byte form of [0] left out
_encode_varints_no_shorthand(buf, ints, zigzag) ==
    LET Encoded(w) == [err |-> "none", ret |-> w.ret, buf |-> w.buf]
    IN  IF Len(ints) = 0 THEN [err |-> "AssertionError", ret |-> TRUE, buf |-> buf]
        ELSE Encoded(EncodeEach(_write_varint(buf, FromInt(Len(ints)), zigzag), ints, zigzag))

_encode_varints(buf, ints, zigzag) ==
    LET Encoded(w) == [err |-> "none", ret |-> w.ret, buf |-> w.buf]
    IN  IF Len(ints) = 0 THEN [err |-> "AssertionError", ret |-> TRUE, buf |-> buf]
        ELSE IF ints = <<0>> THEN [err |-> "none", ret |-> TRUE, buf |-> buf \o <<0>>]
        ELSE Encoded(EncodeEach(_write_varint(buf, FromInt(Len(ints)), zigzag), ints, zigzag))

(***************************************************************************)
(* ProtobufDeserializer._decode_index                                      *)
(***************************************************************************)
\* the ceiling on the decoded array length
MaxIndexSize == 100000

\* x > n for a Python int x and a small integer n >= 0
GreaterThan(x, n) == ~IsNeg(x) /\ (Len(x.b) > 30 \/ ToInt(x) > n)

\* for _ in range(size): msg_index.append(_decode_varint(buf))
RECURSIVE DecodeEach(_, _, _, _)
DecodeEach(buf, size, msg_index, zigzag) ==
    IF size = 0 THEN [err |-> "none", index |-> msg_index, buf |-> buf]
    ELSE LET Appended(r) ==
                 IF r.err # "none"
                 THEN [err |-> r.err, index |-> <<>>, buf |-> r.buf]
                 ELSE DecodeEach(r.buf, size - 1, Append(msg_index, r.value), zigzag)
         IN  Appended(_decode_varint(buf, zigzag))

_decode_index(buf, zigzag) ==
    LET Sized(r) ==
            IF r.err # "none" THEN [err |-> r.err, index |-> <<>>, buf |-> r.buf]
            ELSE IF IsNeg(r.value) \/ GreaterThan(r.value, MaxIndexSize)
            THEN [err |-> "DecodeError", index |-> <<>>, buf |-> r.buf]
            ELSE IF r.value = Zero
            THEN [err |-> "none", index |-> <<Zero>>, buf |-> r.buf]
            ELSE DecodeEach(r.buf, ToInt(r.value), <<>>, zigzag)
    IN  Sized(_decode_varint(buf, zigzag))

(***************************************************************************)
(* _create_msg_index.  A file is the FileDescriptor and the descriptors of *)
(* its types: message_types_by_name is the ordered key list of that dict,  *)
(* and containing_type, nested_types and name are the descriptors' fields  *)
(* (NoType is None).                                                       *)
(***************************************************************************)
NoType == 0

\* the 1-based position of the first element of seq equal to x, 0 if none
FirstPos(seq, x) ==
    LET hits == {i \in 1..Len(seq) : seq[i] = x}
    IN  IF hits = {} THEN 0 ELSE CHOOSE i \in hits : \A j \in hits : i <= j

\* the while loop: the walk from msg_desc up to its outermost enclosing type.
\* found is set by a match and is not cleared between the levels.
RECURSIVE WalkUp(_, _, _, _)
WalkUp(file, current, msg_idx, found) ==
    IF file.containing_type[current] = NoType
    THEN [err |-> "none", current |-> current, msg_idx |-> msg_idx]
    ELSE LET previous == current
             parent   == file.containing_type[previous]
             pos      == FirstPos(file.nested_types[parent], previous)
             idx2     == IF pos > 0 THEN <<pos - 1>> \o msg_idx ELSE msg_idx
             found2   == found \/ pos > 0
         IN  IF ~found2
             THEN [err |-> "ValueError", current |-> parent, msg_idx |-> idx2]
             ELSE WalkUp(file, parent, idx2, found2)

\* the same walk with append in place of appendleft
RECURSIVE WalkUpAppend(_, _, _, _)
WalkUpAppend(file, current, msg_idx, found) ==
    IF file.containing_type[current] = NoType
    THEN [err |-> "none", current |-> current, msg_idx |-> msg_idx]
    ELSE LET previous == current
             parent   == file.containing_type[previous]
             pos      == FirstPos(file.nested_types[parent], previous)
             idx2     == IF pos > 0 THEN msg_idx \o <<pos - 1>> ELSE msg_idx
             found2   == found \/ pos > 0
         IN  IF ~found2
             THEN [err |-> "ValueError", current |-> parent, msg_idx |-> idx2]
             ELSE WalkUpAppend(file, parent, idx2, found2)

\* positions appended on the right: the path comes out leaf first
_create_msg_index_append(file, msg_desc) ==
    LET w == WalkUpAppend(file, msg_desc, <<>>, FALSE)
    IN  IF w.err # "none" THEN [err |-> "ValueError", index |-> <<>>]
        ELSE LET pos == FirstPos(file.message_types_by_name, file.name[w.current])
             IN  IF pos = 0 THEN [err |-> "ValueError", index |-> <<>>]
                 ELSE [err |-> "none", index |-> w.msg_idx \o <<pos - 1>>]

\* the top-level position counted from one
_create_msg_index_from_one(file, msg_desc) ==
    LET w == WalkUp(file, msg_desc, <<>>, FALSE)
    IN  IF w.err # "none" THEN [err |-> "ValueError", index |-> <<>>]
        ELSE LET pos == FirstPos(file.message_types_by_name, file.name[w.current])
             IN  IF pos = 0 THEN [err |-> "ValueError", index |-> <<>>]
                 ELSE [err |-> "none", index |-> <<pos>> \o w.msg_idx]

_create_msg_index(file, msg_desc) ==
    LET w == WalkUp(file, msg_desc, <<>>, FALSE)
    IN  IF w.err # "none" THEN [err |-> "ValueError", index |-> <<>>]
        ELSE LET pos == FirstPos(file.message_types_by_name, file.name[w.current])
             IN  IF pos = 0 THEN [err |-> "ValueError", index |-> <<>>]
                 ELSE [err |-> "none", index |-> <<pos - 1>> \o w.msg_idx]

(***************************************************************************)
(* The payload codec (google.protobuf): Message.SerializeToString and      *)
(* Message.ParseFromString of the bound message class.  Messages are named *)
(* values with their encodings; bytes that encode no message of the class  *)
(* raise DecodeError.                                                      *)
(***************************************************************************)
Messages == {"m_empty", "m_field1", "m_field16"}

SerializeToString(m) ==
    CASE m = "m_empty"   -> <<>>
      [] m = "m_field1"  -> <<8, 1>>
      [] m = "m_field16" -> <<128, 1, 5>>

ParseFromString(bytes) ==
    IF \E m \in Messages : SerializeToString(m) = bytes
    THEN [err |-> "none", msg |-> CHOOSE m \in Messages : SerializeToString(m) = bytes]
    ELSE [err |-> "DecodeError", msg |-> "None"]

(***************************************************************************)
(* ProtobufDeserializer.__call__.  NoneValue is the Python None; any other *)
(* value is the sequence of its bytes.                                     *)
(***************************************************************************)
NoneValue == <<-1>>

\* _MAGIC_BYTE of confluent_kafka.schema_registry
_MAGIC_BYTE == 0

\* the shortest input accepted: magic byte, 4-byte id, one index byte
MinLength == 6

\* the length of the magic byte and the schema id, struct format '>bI'
HeaderLength == 5

\* struct's 'b': a byte read as a signed char
SignedChar(b) == IF b >= 128 THEN b - 256 ELSE b

NotRun == [err |-> "none", why |-> "not run", index_read |-> FALSE, pos |-> 0,
           parsed |-> NoneValue, msg |-> "None"]

\* lines 622-629: the payload is what follows the index
ParsePayload(value, ix) ==
    LET Parsed(rest, pr) ==
            [err        |-> IF pr.err = "DecodeError" THEN "SerializationError" ELSE "none",
             why        |-> IF pr.err = "DecodeError" THEN "payload" ELSE "ok",
             index_read |-> TRUE,
             pos        |-> ix.buf.pos,
             parsed     |-> rest,
             msg        |-> pr.msg]
        Rest(rest) == Parsed(rest, ParseFromString(rest))
    IN  IF ix.err # "none"
        THEN [NotRun EXCEPT !.err = ix.err, !.why = "index", !.index_read = TRUE,
                            !.pos = ix.buf.pos]
        ELSE Rest(SubSeq(value, ix.buf.pos + 1, Len(value)))

\* the length check against 5 in place of 6
ProtobufDeserializer_call_min5(obj, value) ==
    IF value = NoneValue THEN [NotRun EXCEPT !.why = "None"]
    ELSE IF Len(value) < HeaderLength
    THEN [NotRun EXCEPT !.err = "SerializationError", !.why = "Message too small"]
    ELSE IF SignedChar(value[1]) # _MAGIC_BYTE
    THEN [NotRun EXCEPT !.err = "SerializationError", !.why = "Unknown magic byte",
                        !.pos = HeaderLength]
    ELSE ParsePayload(value, _decode_index([data |-> value, pos |-> HeaderLength],
                                           ~obj._use_deprecated_format))

\* the index read as zig-zag under the deprecated format and plain under
\* the current one
ProtobufDeserializer_call_zigzag_deprecated(obj, value) ==
    IF value = NoneValue THEN [NotRun EXCEPT !.why = "None"]
    ELSE IF Len(value) < MinLength
    THEN [NotRun EXCEPT !.err = "SerializationError", !.why = "Message too small"]
    ELSE IF SignedChar(value[1]) # _MAGIC_BYTE
    THEN [NotRun EXCEPT !.err = "SerializationError", !.why = "Unknown magic byte",
                        !.pos = HeaderLength]
    ELSE ParsePayload(value, _decode_index([data |-> value, pos |-> HeaderLength],
                                           obj._use_deprecated_format))

ProtobufDeserializer_call(obj, value) ==
    IF value = NoneValue THEN [NotRun EXCEPT !.why = "None"]
    ELSE IF Len(value) < MinLength
    THEN [NotRun EXCEPT !.err = "SerializationError", !.why = "Message too small"]
    ELSE IF SignedChar(value[1]) # _MAGIC_BYTE
    THEN [NotRun EXCEPT !.err = "SerializationError", !.why = "Unknown magic byte",
                        !.pos = HeaderLength]
    ELSE ParsePayload(value, _decode_index([data |-> value, pos |-> HeaderLength],
                                           ~obj._use_deprecated_format))

(***************************************************************************)
(* Type trees and message types.  The types are numbered in declaration    *)
(* order of their parents, a type's enclosing type has a smaller number,   *)
(* and siblings are declared in ascending or in descending order.          *)
(***************************************************************************)
MaxTypes == 5

TypeNames == <<"Order", "Item", "Line", "Tag", "Unit", "Note", "Part", "Lot">>

RECURSIVE SortedSeq(_, _)
SortedSeq(S, descending) ==
    IF S = {} THEN <<>>
    ELSE LET x == CHOOSE y \in S : \A z \in S : IF descending THEN z <= y ELSE y <= z
         IN  <<x>> \o SortedSeq(S \ {x}, descending)

ParentMaps(n) == {p \in [1..n -> 0..(n - 1)] : \A i \in 1..n : p[i] < i}

WellFormedFile(n, p, descending) ==
    LET children(k) == SortedSeq({i \in 1..n : p[i] = k}, descending)
        top == children(NoType)
    IN  [message_types_by_name |-> [i \in 1..Len(top) |-> TypeNames[top[i]]],
         containing_type       |-> p,
         nested_types          |-> [k \in 1..n |-> children(k)],
         name                  |-> [k \in 1..n |-> TypeNames[k]]]

\* The dependency part of a FileDescriptor: the files are numbered, root is
\* the file of the bound type, dependencies[f] is f's dependency list in
\* declared order and name[f] is f's name.
ProtoNames == <<"a.proto", "b.proto", "c.proto", "d.proto">>

WellKnownNames == <<"a.proto", "b.proto", "c.proto", "google/protobuf/timestamp.proto">>

Proto(deps, names) ==
    [root |-> 1, dependencies |-> deps, name |-> [f \in 1..Len(deps) |-> names[f]]]

\* A depends on [B, C], B on [D]
ProtoABCD == Proto(<<<<2, 3>>, <<4>>, <<>>, <<>>>>, ProtoNames)

Protos ==
    {Proto(<<<<>>>>, ProtoNames),
     ProtoABCD,
     Proto(<<<<2, 3>>, <<4>>, <<>>, <<>>>>, WellKnownNames),
     Proto(<<<<3, 2>>, <<4>>, <<4>>, <<>>>>, ProtoNames),
     Proto(<<<<4, 2>>, <<3>>, <<4>>, <<>>>>, WellKnownNames)}

\* the bound types: the only top-level type, the second top-level type, and
\* the second nested type of the first top-level type
BoundTypes ==
    {[file |-> WellFormedFile(1, <<0>>, FALSE), descriptor |-> 1],
     [file |-> WellFormedFile(2, <<0, 0>>, FALSE), descriptor |-> 2],
     [file |-> WellFormedFile(3, <<0, 1, 1>>, FALSE), descriptor |-> 3]}

MsgTypes ==
    {[file |-> t.file, descriptor |-> t.descriptor, proto |-> g] :
        t \in BoundTypes, g \in Protos}

(***************************************************************************)
(* Configuration.  A conf is None or a dict; opts gives each option's      *)
(* value, "absent" for a key the dict does not hold.  "True" and "False"   *)
(* are the Python bools, "NotBool" any other value; a strategy option      *)
(* holds the name of a callable or "NotCallable".                          *)
(***************************************************************************)
BoolKeys == {"auto.register.schemas", "normalize.schemas", "use.latest.version",
             "skip.known.types", "use.deprecated.format"}

StrategyKeys == {"subject.name.strategy", "reference.subject.name.strategy"}

UnknownKeys == {"schema.registry.url"}

ConfKeys == BoolKeys \cup StrategyKeys \cup UnknownKeys

Callables == {"topic_subject_name_strategy", "reference_subject_name_strategy"}

\* ProtobufSerializer._default_conf
_default_conf ==
    [k \in BoolKeys \cup StrategyKeys |->
        CASE k = "auto.register.schemas"           -> "True"
          [] k = "normalize.schemas"               -> "False"
          [] k = "use.latest.version"              -> "False"
          [] k = "skip.known.types"                -> "False"
          [] k = "subject.name.strategy"           -> "topic_subject_name_strategy"
          [] k = "reference.subject.name.strategy" -> "reference_subject_name_strategy"
          [] k = "use.deprecated.format"           -> "False"]

\* conf_copy = _default_conf.copy(); conf_copy.update(conf); conf_copy.pop(k)
ConfCopy(conf, k) == IF conf.opts[k] = "absent" THEN _default_conf[k] ELSE conf.opts[k]

IsBool(v) == v \in {"True", "False"}

Truth(v) == v = "True"

\* self._schema_id = None
NoneId == -1

\* Schema(schema_str, schema_type='PROTOBUF', references=[]); the schema string
\* (the base64 of the file's serialized descriptor) is kept as the file it encodes
Schema(file_id, references) ==
    [schema_str |-> file_id, schema_type |-> "PROTOBUF", references |-> references]

NotConstructed == [err |-> "none", why |-> "not run"]

Raised(err, why) == [err |-> err, why |-> why]

\* the test that use.latest.version and auto.register.schemas exclude each
\* other left out
ProtobufSerializer_init_no_conflict_test(msg_type, conf) ==
    LET auto   == ConfCopy(conf, "auto.register.schemas")
        norm   == ConfCopy(conf, "normalize.schemas")
        latest == ConfCopy(conf, "use.latest.version")
        skip   == ConfCopy(conf, "skip.known.types")
        depr   == ConfCopy(conf, "use.deprecated.format")
        subj   == ConfCopy(conf, "subject.name.strategy")
        ref    == ConfCopy(conf, "reference.subject.name.strategy")
        index  == _create_msg_index(msg_type.file, msg_type.descriptor)
    IN  IF conf.isNone \/ conf.opts["use.deprecated.format"] = "absent"
        THEN Raised("RuntimeError", "use.deprecated.format must be explicitly set")
        ELSE IF ~IsBool(auto) THEN Raised("ValueError", "auto.register.schemas")
        ELSE IF ~IsBool(norm) THEN Raised("ValueError", "normalize.schemas")
        ELSE IF ~IsBool(latest) THEN Raised("ValueError", "use.latest.version")
        ELSE IF ~IsBool(skip) THEN Raised("ValueError", "skip.known.types")
        ELSE IF ~IsBool(depr) THEN Raised("ValueError", "use.deprecated.format")
        ELSE IF subj \notin Callables THEN Raised("ValueError", "subject.name.strategy")
        ELSE IF ref \notin Callables THEN Raised("ValueError", "subject.name.strategy")
        ELSE IF \E k \in UnknownKeys : conf.opts[k] # "absent"
        THEN Raised("ValueError", "Unrecognized properties")
        ELSE IF index.err # "none" THEN Raised("ValueError", "msg index")
        ELSE [err |-> "none", why |-> "ok",
              _auto_register              |-> Truth(auto),
              _normalize_schemas          |-> Truth(norm),
              _use_latest_version         |-> Truth(latest),
              _skip_known_types           |-> Truth(skip),
              _use_deprecated_format      |-> Truth(depr),
              _subject_name_func          |-> subj,
              _ref_reference_subject_func |-> ref,
              _schema_id                  |-> NoneId,
              _known_subjects             |-> {},
              _msg_class                  |-> msg_type,
              _msg_index                  |-> index.index,
              _schema                     |-> Schema(msg_type.proto.root, <<>>)]

ProtobufSerializer_init(msg_type, conf) ==
    LET auto   == ConfCopy(conf, "auto.register.schemas")
        norm   == ConfCopy(conf, "normalize.schemas")
        latest == ConfCopy(conf, "use.latest.version")
        skip   == ConfCopy(conf, "skip.known.types")
        depr   == ConfCopy(conf, "use.deprecated.format")
        subj   == ConfCopy(conf, "subject.name.strategy")
        ref    == ConfCopy(conf, "reference.subject.name.strategy")
        index  == _create_msg_index(msg_type.file, msg_type.descriptor)
    IN  IF conf.isNone \/ conf.opts["use.deprecated.format"] = "absent"
        THEN Raised("RuntimeError", "use.deprecated.format must be explicitly set")
        ELSE IF ~IsBool(auto) THEN Raised("ValueError", "auto.register.schemas")
        ELSE IF ~IsBool(norm) THEN Raised("ValueError", "normalize.schemas")
        ELSE IF ~IsBool(latest) THEN Raised("ValueError", "use.latest.version")
        ELSE IF Truth(latest) /\ Truth(auto)
        THEN Raised("ValueError", "cannot enable both use.latest.version and auto.register.schemas")
        ELSE IF ~IsBool(skip) THEN Raised("ValueError", "skip.known.types")
        ELSE IF ~IsBool(depr) THEN Raised("ValueError", "use.deprecated.format")
        ELSE IF subj \notin Callables THEN Raised("ValueError", "subject.name.strategy")
        ELSE IF ref \notin Callables THEN Raised("ValueError", "subject.name.strategy")
        ELSE IF \E k \in UnknownKeys : conf.opts[k] # "absent"
        THEN Raised("ValueError", "Unrecognized properties")
        ELSE IF index.err # "none" THEN Raised("ValueError", "msg index")
        ELSE [err |-> "none", why |-> "ok",
              _auto_register              |-> Truth(auto),
              _normalize_schemas          |-> Truth(norm),
              _use_latest_version         |-> Truth(latest),
              _skip_known_types           |-> Truth(skip),
              _use_deprecated_format      |-> Truth(depr),
              _subject_name_func          |-> subj,
              _ref_reference_subject_func |-> ref,
              _schema_id                  |-> NoneId,
              _known_subjects             |-> {},
              _msg_class                  |-> msg_type,
              _msg_index                  |-> index.index,
              _schema                     |-> Schema(msg_type.proto.root, <<>>)]

\* ProtobufDeserializer._default_conf holds use.deprecated.format alone, and
\* the constructor looks at no other key
ProtobufDeserializer_init(message_type, conf) ==
    LET depr  == IF conf.opts["use.deprecated.format"] = "absent"
                 THEN "False" ELSE conf.opts["use.deprecated.format"]
        index == _create_msg_index(message_type.file, message_type.descriptor)
    IN  IF conf.isNone \/ conf.opts["use.deprecated.format"] = "absent"
        THEN Raised("RuntimeError", "use.deprecated.format must be explicitly set")
        ELSE IF ~IsBool(depr) THEN Raised("ValueError", "use.deprecated.format")
        ELSE IF index.err # "none" THEN Raised("ValueError", "msg index")
        ELSE [err |-> "none", why |-> "ok",
              _use_deprecated_format |-> Truth(depr),
              _msg_index             |-> index.index,
              _msg_class             |-> message_type]

(***************************************************************************)
(* Subject names and the Schema Registry client.  The strategies and the   *)
(* client are collaborators of this file: a strategy is a function of the  *)
(* context, and a store call either returns what the registry holds for    *)
(* the subject or raises.                                                  *)
(***************************************************************************)
\* topic_subject_name_strategy: ctx.topic + "-" + ctx.field
topic_subject_name_strategy(ctx, record_name) ==
    CASE ctx.topic = "orders" /\ ctx.field = "value" -> "orders-value"
      [] ctx.topic = "audit"  /\ ctx.field = "value" -> "audit-value"

\* what a strategy is handed as its second argument: a FileDescriptor
\* (line 361) or the full name of the message type, a str (line 404)
FileDescriptorArg(name) == [type |-> "FileDescriptor", name |-> name]

StrArg(value) == [type |-> "str", value |-> value]

\* reference_subject_name_strategy: schema_ref.name, an attribute a str lacks
reference_subject_name_strategy(ctx, schema_ref) ==
    IF schema_ref.type = "str" THEN [err |-> "AttributeError", subject |-> ""]
    ELSE [err |-> "none", subject |-> schema_ref.name]

\* the call of a callable kept from the conf
CallStrategy(func, ctx, arg) ==
    IF func = "topic_subject_name_strategy"
    THEN [err |-> "none", subject |-> topic_subject_name_strategy(ctx, arg)]
    ELSE reference_subject_name_strategy(ctx, arg)

\* the id and the version the registry holds for a subject
RegisteredId(subject) ==
    CASE subject = "orders-value" -> 7
      [] subject = "audit-value"  -> 100000
      [] subject = "b.proto"      -> 21
      [] subject = "c.proto"      -> 22
      [] subject = "d.proto"      -> 23
      [] OTHER                    -> 24

RegisteredVersion(subject) ==
    CASE subject = "b.proto" -> 2
      [] subject = "c.proto" -> 3
      [] subject = "d.proto" -> 4
      [] OTHER               -> 1

\* SchemaRegistryClient.register_schema returns the schema id
register_schema(subject, schema, normalize_schemas) == RegisteredId(subject)

\* SchemaRegistryClient.lookup_schema returns a RegisteredSchema
lookup_schema(subject, schema, normalize_schemas) ==
    [schema_id |-> RegisteredId(subject), version |-> RegisteredVersion(subject)]

\* SchemaRegistryClient.get_latest_version returns a RegisteredSchema
get_latest_version(subject) ==
    [schema_id |-> RegisteredId(subject), version |-> RegisteredVersion(subject)]

\* The store calls of one serialize call: calls is the sequence issued so
\* far, and the fail_at-th of them raises (0: none does); raised is set once
\* it has, and nothing is called after that.
StoreStart(fail_at) == [calls |-> <<>>, raised |-> FALSE, fail_at |-> fail_at]

StoreCall(st, op, subject, schema, normalize_schemas) ==
    IF st.raised THEN st
    ELSE LET fails == Len(st.calls) + 1 = st.fail_at
         IN  [calls   |-> Append(st.calls,
                                 [op |-> op, subject |-> subject, schema |-> schema,
                                  normalize_schemas |-> normalize_schemas,
                                  raised |-> fails]),
              raised  |-> fails,
              fail_at |-> st.fail_at]

(***************************************************************************)
(* ProtobufSerializer._resolve_dependencies                                *)
(***************************************************************************)
\* dep.name.startswith("google/protobuf/"), over the file names of the model
StartsWithGoogleProtobuf(name) == name \in {"google/protobuf/timestamp.proto"}

SchemaReference(name, subject, version) ==
    [name |-> name, subject |-> subject, version |-> version]

\* the for loop over file_desc.dependencies; deps is what is left of the list
\* and schema_refs the list built so far
RECURSIVE ResolveLoop(_, _, _, _, _, _)
ResolveLoop(obj, ctx, proto, deps, schema_refs, st) ==
    LET dep     == Head(deps)
        subject == CallStrategy(obj._ref_reference_subject_func, ctx,
                                FileDescriptorArg(proto.name[dep])).subject
        \* schema_refs.append(SchemaReference(dep.name, subject, reference.version))
        Referenced(st2, ref) ==
            ResolveLoop(obj, ctx, proto, Tail(deps), Append(schema_refs, ref), st2)
        \* reference = self._registry.lookup_schema(subject, schema)
        Looked(schema, st1) ==
            Referenced(StoreCall(st1, "lookup_schema", subject, schema, FALSE),
                       SchemaReference(proto.name[dep], subject,
                                       lookup_schema(subject, schema, FALSE).version))
        \* if self._auto_register: self._registry.register_schema(subject, schema)
        Registered(sub, schema) ==
            Looked(schema,
                   IF obj._auto_register
                   THEN StoreCall(sub.st, "register_schema", subject, schema, FALSE)
                   ELSE sub.st)
        \* dep_refs = self._resolve_dependencies(ctx, dep)
        Resolved(sub) == Registered(sub, Schema(dep, sub.refs))
    IN  IF deps = <<>> \/ st.raised THEN [refs |-> schema_refs, st |-> st]
        ELSE IF obj._skip_known_types /\ StartsWithGoogleProtobuf(proto.name[dep])
        THEN ResolveLoop(obj, ctx, proto, Tail(deps), schema_refs, st)
        ELSE Resolved(ResolveLoop(obj, ctx, proto, proto.dependencies[dep], <<>>, st))

\* a dependency's own references added to the list of the file that names it
RECURSIVE ResolveLoopFlat(_, _, _, _, _, _)
ResolveLoopFlat(obj, ctx, proto, deps, schema_refs, st) ==
    LET dep     == Head(deps)
        subject == CallStrategy(obj._ref_reference_subject_func, ctx,
                                FileDescriptorArg(proto.name[dep])).subject
        \* schema_refs.append(SchemaReference(dep.name, subject, reference.version))
        Referenced(dep_refs, st2, ref) ==
            ResolveLoopFlat(obj, ctx, proto, Tail(deps), schema_refs \o dep_refs \o <<ref>>, st2)
        \* reference = self._registry.lookup_schema(subject, schema)
        Looked(dep_refs, schema, st1) ==
            Referenced(dep_refs, StoreCall(st1, "lookup_schema", subject, schema, FALSE),
                       SchemaReference(proto.name[dep], subject,
                                       lookup_schema(subject, schema, FALSE).version))
        \* if self._auto_register: self._registry.register_schema(subject, schema)
        Registered(sub, schema) ==
            Looked(sub.refs, schema,
                   IF obj._auto_register
                   THEN StoreCall(sub.st, "register_schema", subject, schema, FALSE)
                   ELSE sub.st)
        \* dep_refs = self._resolve_dependencies(ctx, dep)
        Resolved(sub) == Registered(sub, Schema(dep, sub.refs))
    IN  IF deps = <<>> \/ st.raised THEN [refs |-> schema_refs, st |-> st]
        ELSE IF obj._skip_known_types /\ StartsWithGoogleProtobuf(proto.name[dep])
        THEN ResolveLoopFlat(obj, ctx, proto, Tail(deps), schema_refs, st)
        ELSE Resolved(ResolveLoopFlat(obj, ctx, proto, proto.dependencies[dep], <<>>, st))

\* a dependency looked up before it is registered
RECURSIVE ResolveLoopLookupFirst(_, _, _, _, _, _)
ResolveLoopLookupFirst(obj, ctx, proto, deps, schema_refs, st) ==
    LET dep     == Head(deps)
        subject == CallStrategy(obj._ref_reference_subject_func, ctx,
                                FileDescriptorArg(proto.name[dep])).subject
        Referenced(st2, ref) ==
            ResolveLoopLookupFirst(obj, ctx, proto, Tail(deps), Append(schema_refs, ref), st2)
        Registered(schema, st1) ==
            Referenced(IF obj._auto_register
                       THEN StoreCall(st1, "register_schema", subject, schema, FALSE)
                       ELSE st1,
                       SchemaReference(proto.name[dep], subject,
                                       lookup_schema(subject, schema, FALSE).version))
        Looked(sub, schema) ==
            Registered(schema, StoreCall(sub.st, "lookup_schema", subject, schema, FALSE))
        Resolved(sub) == Looked(sub, Schema(dep, sub.refs))
    IN  IF deps = <<>> \/ st.raised THEN [refs |-> schema_refs, st |-> st]
        ELSE IF obj._skip_known_types /\ StartsWithGoogleProtobuf(proto.name[dep])
        THEN ResolveLoopLookupFirst(obj, ctx, proto, Tail(deps), schema_refs, st)
        ELSE Resolved(ResolveLoopLookupFirst(obj, ctx, proto, proto.dependencies[dep], <<>>, st))

_resolve_dependencies_lookup_first(obj, ctx, proto, file_desc, st) ==
    ResolveLoopLookupFirst(obj, ctx, proto, proto.dependencies[file_desc], <<>>, st)

_resolve_dependencies_flat(obj, ctx, proto, file_desc, st) ==
    ResolveLoopFlat(obj, ctx, proto, proto.dependencies[file_desc], <<>>, st)

_resolve_dependencies(obj, ctx, proto, file_desc, st) ==
    ResolveLoop(obj, ctx, proto, proto.dependencies[file_desc], <<>>, st)

(***************************************************************************)
(* ProtobufSerializer.__call__.  message is a message of the bound class,  *)
(* "None", or an object of another class.  A call waits in each of its     *)
(* store calls, and other calls on the same serializer may run meanwhile:  *)
(* a call is a frame (its position and its local variables), and each      *)
(* operator below is the part of __call__ between two points at which the  *)
(* call reads or writes the serializer or waits in the store.  Each gives  *)
(* the serializer and the frame as that part leaves them, and out, what    *)
(* the call hands back when that part ends the call.                       *)
(***************************************************************************)
\* struct.pack('>bI', magic, schema_id): one signed byte, then the id as four
\* bytes, most significant first
Pack_bI(magic, schema_id) ==
    <<magic % 256,
      (schema_id \div 16777216) % 256, (schema_id \div 65536) % 256,
      (schema_id \div 256) % 256, schema_id % 256>>

\* lines 425-434: the envelope around the encoded message
Envelope(obj, message) ==
    LET Indexed(ix) ==
            IF ix.err # "none" THEN [err |-> ix.err, ret |-> NoneValue]
            ELSE [err |-> "none", ret |-> ix.buf \o SerializeToString(message)]
    IN  IF obj._schema_id < 0 THEN [err |-> "struct.error", ret |-> NoneValue]
        ELSE Indexed(_encode_varints(Pack_bI(_MAGIC_BYTE, obj._schema_id), obj._msg_index,
                                     ~obj._use_deprecated_format))

\* what a call hands back: the bytes or None in ret, or the exception in
\* err; calls are the store calls it issued; prior_success says whether a
\* call for its subject had succeeded when it began, and alone whether no
\* other call on the serializer was in progress at any time during it
NoWire ==
    [message |-> "None", subject |-> "", err |-> "none", ret |-> NoneValue,
     calls |-> <<>>, prior_success |-> FALSE, alone |-> TRUE, ran |-> FALSE]

NoCtx == [topic |-> "", field |-> ""]

\* no call in progress
IdleFrame ==
    [pc |-> "idle", message |-> "None", ctx |-> NoCtx, subject |-> "", calls |-> <<>>,
     prior_success |-> FALSE, alone |-> TRUE]

Returns(frame, err, ret) ==
    [message |-> frame.message, subject |-> frame.subject, err |-> err, ret |-> ret,
     calls |-> frame.calls, prior_success |-> frame.prior_success,
     alone |-> frame.alone, ran |-> TRUE]

\* the part goes on: the call has not ended
GoesOn(obj, frame) == [obj |-> obj, frame |-> frame, out |-> NoWire]

\* the part ends the call
Ends(obj, frame, err, ret) == [obj |-> obj, frame |-> IdleFrame, out |-> Returns(frame, err, ret)]

\* the store calls _resolve_dependencies issues for the file of the bound
\* type when none of them raises, and the list it returns
DependencyCalls(obj, ctx) ==
    _resolve_dependencies(obj, ctx, obj._msg_class.proto, obj._msg_class.proto.root,
                          StoreStart(0))

\* the store call of lines 408, 416 or 420
TopLevelOp(obj) ==
    IF obj._use_latest_version THEN "get_latest_version"
    ELSE IF obj._auto_register THEN "register_schema"
    ELSE "lookup_schema"

\* lines 396-406 with the test of line 406 left out: the subject is resolved
\* on every call
ProtobufSerializer_call_begin_no_cache(obj, message, ctx, prior) ==
    LET Begun(subject) ==
            [pc |-> "idle", message |-> message, ctx |-> ctx, subject |-> subject.subject,
             calls |-> <<>>, prior_success |-> subject.subject \in prior, alone |-> TRUE]
        Resolve(subject, frame) ==
            IF subject.err # "none" THEN Ends(obj, frame, subject.err, NoneValue)
            ELSE IF obj._use_latest_version
            THEN GoesOn(obj, [frame EXCEPT !.pc = "store"])
            ELSE IF DependencyCalls(obj, ctx).st.calls = <<>>
            THEN GoesOn(obj, [frame EXCEPT !.pc = "references"])
            ELSE GoesOn(obj, [frame EXCEPT !.pc = "dependencies"])
        Named(subject) == Resolve(subject, Begun(subject))
    IN  IF message = "None"
        THEN Ends(obj, [IdleFrame EXCEPT !.ctx = ctx], "none", NoneValue)
        ELSE IF message \notin Messages
        THEN Ends(obj, [IdleFrame EXCEPT !.message = message, !.ctx = ctx],
                  "ValueError", NoneValue)
        ELSE Named(CallStrategy(obj._subject_name_func, ctx, StrArg("full_name")))

\* lines 396-413, up to the first store call or the first access to the
\* serializer after the test of line 406
ProtobufSerializer_call_begin(obj, message, ctx, prior) ==
    LET Begun(subject) ==
            [pc |-> "idle", message |-> message, ctx |-> ctx, subject |-> subject.subject,
             calls |-> <<>>, prior_success |-> subject.subject \in prior, alone |-> TRUE]
        Resolve(subject, frame) ==
            IF subject.err # "none" THEN Ends(obj, frame, subject.err, NoneValue)
            ELSE IF subject.subject \in obj._known_subjects
            THEN GoesOn(obj, [frame EXCEPT !.pc = "write"])
            ELSE IF obj._use_latest_version
            THEN GoesOn(obj, [frame EXCEPT !.pc = "store"])
            ELSE IF DependencyCalls(obj, ctx).st.calls = <<>>
            THEN GoesOn(obj, [frame EXCEPT !.pc = "references"])
            ELSE GoesOn(obj, [frame EXCEPT !.pc = "dependencies"])
        Named(subject) == Resolve(subject, Begun(subject))
    IN  IF message = "None"
        THEN Ends(obj, [IdleFrame EXCEPT !.ctx = ctx], "none", NoneValue)
        ELSE IF message \notin Messages
        THEN Ends(obj, [IdleFrame EXCEPT !.message = message, !.ctx = ctx],
                  "ValueError", NoneValue)
        ELSE Named(CallStrategy(obj._subject_name_func, ctx, StrArg("full_name")))

\* lines 366 and 368: the store call of a dependency the call waits in
\* returns or raises; the calls before it are in frame.calls.  The schema it
\* is handed is built from the call's own variables (lines 360-364) and
\* nothing of the serializer is read or written around it, so the call and
\* its return are one part
ProtobufSerializer_call_dependency(obj, frame, raised) ==
    LET Logged(plan, log) ==
            IF raised THEN Ends(obj, [frame EXCEPT !.calls = log], "SchemaRegistryError",
                                NoneValue)
            ELSE IF Len(log) = Len(plan)
            THEN GoesOn(obj, [frame EXCEPT !.calls = log, !.pc = "references"])
            ELSE GoesOn(obj, [frame EXCEPT !.calls = log])
        Planned(plan) ==
            Logged(plan, Append(frame.calls,
                                [plan[Len(frame.calls) + 1] EXCEPT !.raised = raised]))
    IN  Planned(DependencyCalls(obj, frame.ctx).st.calls)

\* lines 412-413: the list _resolve_dependencies returned is assigned
ProtobufSerializer_call_references(obj, frame) ==
    GoesOn([obj EXCEPT !._schema.references = DependencyCalls(obj, frame.ctx).refs],
           [frame EXCEPT !.pc = "store"])

\* lines 408, 416-417 or 420-421, the call: the subject and the schema as
\* the serializer holds it at this moment are handed to the store, and the
\* call waits in the store
ProtobufSerializer_call_store(obj, frame) ==
    LET subject == frame.subject
        schema  == IF obj._use_latest_version THEN Schema(NoType, <<>>) ELSE obj._schema
    IN  GoesOn(obj,
               [frame EXCEPT
                   !.calls = Append(@, [op |-> TopLevelOp(obj), subject |-> subject,
                                        schema |-> schema,
                                        normalize_schemas |-> ~obj._use_latest_version
                                                              /\ obj._normalize_schemas,
                                        raised |-> FALSE]),
                   !.pc = "waiting"])

\* the subject added to _known_subjects whether the store call returned or
\* raised
ProtobufSerializer_call_store_return_known_first(obj, frame, raised) ==
    LET subject == frame.subject
        known   == [obj EXCEPT !._known_subjects = @ \cup {subject}]
        Called(log) ==
            IF raised THEN Ends(known, [frame EXCEPT !.calls = log], "SchemaRegistryError",
                                NoneValue)
            ELSE GoesOn([known EXCEPT !._schema_id = RegisteredId(subject)],
                        [frame EXCEPT !.calls = log, !.pc = "known"])
    IN  Called([frame.calls EXCEPT ![Len(frame.calls)].raised = raised])

\* lines 408-409, 416-418 or 420-421, the return: the store call the call
\* waits in returns or raises, and the id it returned for the schema it was
\* handed is assigned
ProtobufSerializer_call_store_return(obj, frame, raised) ==
    LET subject == frame.subject
        schema  == frame.calls[Len(frame.calls)].schema
        id      == IF obj._use_latest_version THEN get_latest_version(subject).schema_id
                   ELSE IF obj._auto_register
                   THEN register_schema(subject, schema, obj._normalize_schemas)
                   ELSE lookup_schema(subject, schema, obj._normalize_schemas).schema_id
        Called(log) ==
            IF raised THEN Ends(obj, [frame EXCEPT !.calls = log], "SchemaRegistryError",
                                NoneValue)
            ELSE GoesOn([obj EXCEPT !._schema_id = id],
                        [frame EXCEPT !.calls = log, !.pc = "known"])
    IN  Called([frame.calls EXCEPT ![Len(frame.calls)].raised = raised])

\* line 423
ProtobufSerializer_call_known(obj, frame) ==
    GoesOn([obj EXCEPT !._known_subjects = @ \cup {frame.subject}],
           [frame EXCEPT !.pc = "write"])

\* lines 425-434
ProtobufSerializer_call_write(obj, frame) ==
    LET Enveloped(env) == Ends(obj, frame, env.err, env.ret)
    IN  Enveloped(Envelope(obj, frame.message))

(***************************************************************************)
(* The varint codec on its own: a value is written and read back.          *)
(***************************************************************************)
\* every integer of magnitude up to SmallRange is an input
SmallRange == 130

\* bit patterns of every width up to 64 bits: all zeros, all ones, and the two
\* alternating patterns, under either sign; this holds -2^63, 2^63 - 1,
\* every power of two and every 2^k - 1
BitPattern(p, i) ==
    CASE p = 1 -> 0
      [] p = 2 -> 1
      [] p = 3 -> i % 2
      [] OTHER -> (i + 1) % 2

Int64Patterns ==
    {Norm([b |-> [i \in 1..n |-> BitPattern(p, i)], s |-> sg]) :
        n \in 0..ZigZagShift, p \in 1..4, sg \in {0, 1}}

VarintInputs == Int64Patterns \cup {FromInt(n) : n \in (0 - SmallRange)..SmallRange}

TrailingBytes == {<<>>, <<0>>, <<128, 1>>}

NoWrite == [ret |-> FALSE, buf |-> <<>>]

\* the varint variables of a specification that does not use them
VarintIdle ==
    /\ vval = Zero
    /\ vzig = FALSE
    /\ vtrail = <<>>
    /\ vwritten = [ret |-> FALSE, buf |-> <<>>]
    /\ vdecoded = [err |-> "none", value |-> Zero, buf |-> [data |-> <<>>, pos |-> 0]]
    /\ vpc = "unused"

NoDecode == [err |-> "none", value |-> Zero, buf |-> [data |-> <<>>, pos |-> 0]]

\* the index variables of a specification that does not use them
IndexIdle ==
    /\ ifile = [message_types_by_name |-> <<>>, containing_type |-> <<>>,
                nested_types |-> <<>>, name |-> <<>>]
    /\ idesc = NoType
    /\ izig = FALSE
    /\ iindex = [err |-> "none", index |-> <<>>]
    /\ iencoded = [err |-> "none", ret |-> FALSE, buf |-> <<>>]
    /\ idecoded = [err |-> "none", index |-> <<>>, buf |-> [data |-> <<>>, pos |-> 0]]
    /\ ipc = "unused"

\* the deserializer-call variables of a specification that does not use them
DeserIdle ==
    /\ dself = [_use_deprecated_format |-> FALSE]
    /\ dvalue = NoneValue
    /\ dresult = NotRun
    /\ dpc = "unused"

\* the construction variables of a specification that does not use them
ConfigIdle ==
    /\ cconf = [isNone |-> TRUE, opts |-> [k \in ConfKeys |-> "absent"]]
    /\ ctype = NoType
    /\ cser = NotConstructed
    /\ cdeser = NotConstructed

\* the object variables of a specification that does not use them
ObjectIdle ==
    /\ ser = NotConstructed
    /\ deser = NotConstructed
    /\ frames = <<>>
    /\ wire = NoWire
    /\ received = NotRun
    /\ succeeded = {}

InitVarint ==
    /\ vval \in VarintInputs
    /\ vzig \in BOOLEAN
    /\ vtrail \in TrailingBytes
    /\ vwritten = NoWrite
    /\ vdecoded = NoDecode
    /\ vpc = "start"
    /\ IndexIdle
    /\ DeserIdle
    /\ ConfigIdle
    /\ ObjectIdle

VarintWrite ==
    /\ vpc = "start"
    /\ vwritten' = _write_varint(<<>>, vval, vzig)
    /\ vpc' = "written"
    /\ UNCHANGED <<vval, vzig, vtrail, vdecoded, indexVars, deserVars, configVars, objectVars>>

VarintDecode ==
    /\ vpc = "written"
    /\ vwritten.ret
    /\ vdecoded' = _decode_varint([data |-> vwritten.buf \o vtrail, pos |-> 0], vzig)
    /\ vpc' = "decoded"
    /\ UNCHANGED <<vval, vzig, vtrail, vwritten, indexVars, deserVars, configVars, objectVars>>

NextVarint == VarintWrite \/ VarintDecode

SpecVarint == InitVarint /\ [][NextVarint]_vars

\* C4 as stated: for every 64-bit v and both zigzag settings the write
\* finishes and the decode returns v having read exactly the written bytes.
C4_RoundTripAll ==
    /\ vpc = "written" => vwritten.ret
    /\ vpc = "decoded" =>
          /\ vdecoded.err = "none"
          /\ vdecoded.value = vval
          /\ vdecoded.buf.pos = Len(vwritten.buf)

\* C4 amended: with zigzag every 64-bit v, and without zigzag every
\* non-negative v, is written in finitely many bytes and decodes to v with
\* exactly those bytes read; without zigzag a negative v is never written out.
C4_RoundTrip ==
    /\ (vpc = "written" /\ (vzig \/ ~IsNeg(vval))) => vwritten.ret
    /\ (vpc = "written" /\ ~vzig /\ IsNeg(vval)) => ~vwritten.ret
    /\ vpc = "decoded" =>
          /\ vdecoded.err = "none"
          /\ vdecoded.value = vval
          /\ vdecoded.buf.pos = Len(vwritten.buf)

\* -2^63 written with zigzag and read back, with bytes following it
C4_Witness ==
    /\ vpc = "decoded"
    /\ vzig
    /\ vval = [b |-> [i \in 1..ZigZagShift |-> 0], s |-> 1]
    /\ vtrail # <<>>
    /\ Len(vwritten.buf) = 10
(***************************************************************************)
(* The message index on its own: every type tree of up to MaxTypes types.  *)
(***************************************************************************)
WellFormedFiles ==
    UNION {{WellFormedFile(n, p, d) : p \in ParentMaps(n), d \in BOOLEAN} : n \in 1..MaxTypes}

TypesOf(file) == DOMAIN file.containing_type

InitIndex ==
    /\ ifile \in WellFormedFiles
    /\ idesc \in TypesOf(ifile)
    /\ izig \in BOOLEAN
    /\ iindex = [err |-> "none", index |-> <<>>]
    /\ iencoded = [err |-> "none", ret |-> FALSE, buf |-> <<>>]
    /\ idecoded = [err |-> "none", index |-> <<>>, buf |-> [data |-> <<>>, pos |-> 0]]
    /\ ipc = "start"
    /\ VarintIdle
    /\ DeserIdle
    /\ ConfigIdle
    /\ ObjectIdle

IndexCompute ==
    /\ ipc = "start"
    /\ iindex' = _create_msg_index(ifile, idesc)
    /\ ipc' = "indexed"
    /\ UNCHANGED <<ifile, idesc, izig, iencoded, idecoded, varintVars, deserVars, configVars, objectVars>>

IndexEncode ==
    /\ ipc = "indexed"
    /\ iindex.err = "none"
    /\ iencoded' = _encode_varints(<<>>, iindex.index, izig)
    /\ ipc' = "encoded"
    /\ UNCHANGED <<ifile, idesc, izig, iindex, idecoded, varintVars, deserVars, configVars, objectVars>>

IndexDecode ==
    /\ ipc = "encoded"
    /\ iencoded.err = "none" /\ iencoded.ret
    /\ idecoded' = _decode_index([data |-> iencoded.buf, pos |-> 0], izig)
    /\ ipc' = "decoded"
    /\ UNCHANGED <<ifile, idesc, izig, iindex, iencoded, varintVars, deserVars, configVars, objectVars>>

NextIndex == IndexCompute \/ IndexEncode \/ IndexDecode

SpecIndex == InitIndex /\ [][NextIndex]_vars

\* the type a path of positions designates: the first position selects among
\* the file's top-level types, each further one among the nested types
TopLevelNamed(file, nm) ==
    CHOOSE k \in TypesOf(file) : file.containing_type[k] = NoType /\ file.name[k] = nm

RECURSIVE Descend(_, _, _)
Descend(file, t, path) ==
    IF path = <<>> THEN t
    ELSE IF t = NoType \/ Head(path) + 1 > Len(file.nested_types[t]) THEN NoType
    ELSE Descend(file, file.nested_types[t][Head(path) + 1], Tail(path))

ResolvePath(file, path) ==
    IF path = <<>> \/ Head(path) + 1 > Len(file.message_types_by_name) THEN NoType
    ELSE Descend(file, TopLevelNamed(file, file.message_types_by_name[Head(path) + 1]),
                 Tail(path))

RECURSIVE Depth(_, _)
Depth(file, t) ==
    IF file.containing_type[t] = NoType THEN 0
    ELSE 1 + Depth(file, file.containing_type[t])

Computed == ipc \in {"indexed", "encoded", "decoded"}

\* C7 as stated: the index is [0] exactly for the only top-level type of a file.
C7_OnlyTopLevel ==
    Computed =>
        (iindex.index = <<0>> <=>
            (ifile.containing_type[idesc] = NoType /\ Len(ifile.message_types_by_name) = 1))

\* C7 amended: the index is [0] exactly for the first top-level type of the
\* file, however many top-level types the file has.
C7_FirstTopLevel ==
    Computed =>
        /\ iindex.err = "none"
        /\ iindex.index = <<0>> <=>
              (/\ ifile.containing_type[idesc] = NoType
               /\ ifile.message_types_by_name[1] = ifile.name[idesc])

\* the first of several top-level types has been indexed
C7_Witness ==
    /\ Computed
    /\ Len(ifile.message_types_by_name) >= 2
    /\ ifile.containing_type[idesc] = NoType
    /\ ifile.message_types_by_name[1] = ifile.name[idesc]
    /\ iindex.index = <<0>>

\* the second nested type of the first top-level type
SecondNestedOfFirst(file, t) ==
    /\ file.containing_type[t] # NoType
    /\ file.containing_type[file.containing_type[t]] = NoType
    /\ file.message_types_by_name[1] = file.name[file.containing_type[t]]
    /\ Len(file.nested_types[file.containing_type[t]]) >= 2
    /\ file.nested_types[file.containing_type[t]][2] = t

\* C8 as stated: that type's index is [0,1] and in zig-zag mode it is
\* written as the bytes 0x02 0x00 0x02.
C8_Bytes020002 ==
    SecondNestedOfFirst(ifile, idesc) =>
        /\ Computed => iindex.index = <<0, 1>>
        /\ (ipc \in {"encoded", "decoded"} /\ izig) => iencoded.buf = <<2, 0, 2>>

\* C8 amended: that type's index is [0,1]; in zig-zag mode it is written as
\* the bytes 0x04 0x00 0x02 (the length prefix 2 is zig-zag encoded like the
\* elements), and in legacy mode as 0x02 0x00 0x01.
C8_Bytes040002 ==
    SecondNestedOfFirst(ifile, idesc) =>
        /\ Computed => iindex.index = <<0, 1>>
        /\ (ipc \in {"encoded", "decoded"} /\ izig) => iencoded.buf = <<4, 0, 2>>
        /\ (ipc \in {"encoded", "decoded"} /\ ~izig) => iencoded.buf = <<2, 0, 1>>

C8_Witness ==
    /\ SecondNestedOfFirst(ifile, idesc)
    /\ ipc = "encoded"
    /\ izig
    /\ iindex.index = <<0, 1>>

\* C9: the index of a type of a well-formed tree is the path from the file
\* root to that type, one position per nesting level.
C9_IndexIsPath ==
    Computed =>
        /\ iindex.err = "none"
        /\ ResolvePath(ifile, iindex.index) = idesc
        /\ Len(iindex.index) = Depth(ifile, idesc) + 1

\* a type nested two levels deep, not the first among its siblings, under a
\* top-level type that is not the first of its file
C9_Witness ==
    /\ Computed
    /\ Depth(ifile, idesc) >= 2
    /\ iindex.index[Len(iindex.index)] >= 1
    /\ iindex.index[1] >= 1
(***************************************************************************)
(* ProtobufDeserializer.__call__ on its own: None, every input shorter     *)
(* than the minimum over ShortBytes, and every input made of a first byte, *)
(* a schema id and up to MaxTail further bytes over TailBytes.             *)
(***************************************************************************)
MaxTail == 3

ShortBytes == {0, 1, 128}

FirstBytes == {0, 1, 255}

\* 1 and 13 after 128 128 decode to a negative and to an oversized length
TailBytes == {0, 1, 2, 4, 8, 13, 128}

SeqsOver(S, n) == UNION {[1..k -> S] : k \in 0..n}

DeserInputs ==
    {NoneValue}
    \cup SeqsOver(ShortBytes, MinLength - 1)
    \cup {<<f, 0, 0, 0, 7>> \o t : f \in FirstBytes, t \in SeqsOver(TailBytes, MaxTail) \ {<<>>}}

InitDeser ==
    /\ dself \in {[_use_deprecated_format |-> d] : d \in BOOLEAN}
    /\ dvalue \in DeserInputs
    /\ dresult = NotRun
    /\ dpc = "start"
    /\ VarintIdle
    /\ IndexIdle
    /\ ConfigIdle
    /\ ObjectIdle

DeserializeInput ==
    /\ dpc = "start"
    /\ dresult' = ProtobufDeserializer_call(dself, dvalue)
    /\ dpc' = "done"
    /\ UNCHANGED <<dself, dvalue, varintVars, indexVars, configVars, objectVars>>

NextDeser == DeserializeInput

SpecDeser == InitDeser /\ [][NextDeser]_vars

\* C6: a non-null input shorter than 6 bytes is rejected as too small, a
\* longer one with a wrong first byte as having an unknown magic byte, both
\* before the index is decoded or the payload parsed.
C6_Rejects ==
    (dpc = "done" /\ dvalue # NoneValue) =>
        /\ Len(dvalue) < 6 =>
              /\ dresult.err = "SerializationError"
              /\ dresult.why = "Message too small"
              /\ ~dresult.index_read
              /\ dresult.parsed = NoneValue
        /\ (Len(dvalue) >= 6 /\ dvalue[1] # 0) =>
              /\ dresult.err = "SerializationError"
              /\ dresult.why = "Unknown magic byte"
              /\ ~dresult.index_read
              /\ dresult.parsed = NoneValue

\* a 5-byte input that starts with the magic byte has been rejected
C6_Witness ==
    /\ dpc = "done"
    /\ Len(dvalue) = 5
    /\ dvalue[1] = 0
    /\ dresult.err = "SerializationError"

\* C10: whatever is wrong with the input, the call fails with
\* SerializationError and with no other error kind.
C10_OnlySerializationError ==
    dpc = "done" => dresult.err \in {"none", "SerializationError"}
(***************************************************************************)
(* Construction on its own: every conf over the recognised options, one    *)
(* unrecognised option, and None.                                          *)
(***************************************************************************)
OptionValues(k) ==
    IF k \in BoolKeys THEN {"absent", "True", "False", "NotBool"}
    ELSE IF k = "subject.name.strategy"
    THEN {"absent", "topic_subject_name_strategy", "NotCallable"}
    ELSE IF k = "reference.subject.name.strategy"
    THEN {"absent", "reference_subject_name_strategy", "NotCallable"}
    ELSE {"absent", "http://localhost:8081"}

Confs ==
    {[isNone |-> TRUE, opts |-> [k \in ConfKeys |-> "absent"]]}
    \cup {[isNone |-> FALSE,
           opts   |-> [k \in ConfKeys |->
                          IF k \in BoolKeys THEN b[k]
                          ELSE IF k = "subject.name.strategy" THEN sn
                          ELSE IF k = "reference.subject.name.strategy" THEN rn
                          ELSE un]] :
            b  \in [BoolKeys -> {"absent", "True", "False", "NotBool"}],
            sn \in OptionValues("subject.name.strategy"),
            rn \in OptionValues("reference.subject.name.strategy"),
            un \in OptionValues("schema.registry.url")}

InitConfig ==
    /\ cconf \in Confs
    /\ ctype \in {t \in MsgTypes : t.proto = ProtoABCD /\ t.descriptor = 3}
    /\ cser = NotConstructed
    /\ cdeser = NotConstructed
    /\ VarintIdle
    /\ IndexIdle
    /\ DeserIdle
    /\ ObjectIdle

ConstructSerializer ==
    /\ cser = NotConstructed
    /\ cser' = ProtobufSerializer_init(ctype, cconf)
    /\ UNCHANGED <<cconf, ctype, cdeser, varintVars, indexVars, deserVars, objectVars>>

ConstructDeserializer ==
    /\ cdeser = NotConstructed
    /\ cdeser' = ProtobufDeserializer_init(ctype, cconf)
    /\ UNCHANGED <<cconf, ctype, cser, varintVars, indexVars, deserVars, objectVars>>

NextConfig == ConstructSerializer \/ ConstructDeserializer

SpecConfig == InitConfig /\ [][NextConfig]_vars

\* C5: construction of a serializer fails when conf is None or lacks
\* use.deprecated.format, and when use.latest.version and
\* auto.register.schemas are both true once the defaults are applied; no
\* constructed serializer has both enabled.
C5_ConstructionFails ==
    cser # NotConstructed =>
        /\ (cconf.isNone \/ cconf.opts["use.deprecated.format"] = "absent")
              => cser.err = "RuntimeError"
        /\ (/\ ~cconf.isNone
            /\ cconf.opts["use.latest.version"] = "True"
            /\ cconf.opts["auto.register.schemas"] \in {"True", "absent"})
              => cser.err \in {"RuntimeError", "ValueError"}
        /\ cser.err = "none" => ~(cser._use_latest_version /\ cser._auto_register)

\* use.latest.version given as true with auto.register.schemas left to its
\* default, everything else valid: construction has failed
C5_Witness ==
    /\ cser # NotConstructed
    /\ cconf.opts["use.deprecated.format"] = "False"
    /\ cconf.opts["use.latest.version"] = "True"
    /\ cconf.opts["auto.register.schemas"] = "absent"
    /\ \A k \in ConfKeys \ {"use.deprecated.format", "use.latest.version"} :
          cconf.opts[k] = "absent"
    /\ cser.err = "ValueError"
(***************************************************************************)
(* One serializer and one deserializer in use.  The serializer is built    *)
(* from a valid conf for a bound type and is called by the callers, each   *)
(* with one call in progress at most; a store call returns or raises; the  *)
(* deserializer is handed the bytes of the latest serialize call that      *)
(* ended.                                                                  *)
(***************************************************************************)
\* the threads that call the serializer
Callers == {"A", "B"}

Conf(depr, auto, latest, skip) ==
    [isNone |-> FALSE,
     opts   |-> [k \in ConfKeys |->
                    CASE k = "use.deprecated.format" -> depr
                      [] k = "auto.register.schemas" -> auto
                      [] k = "use.latest.version"    -> latest
                      [] k = "skip.known.types"      -> skip
                      [] OTHER                       -> "absent"]]

\* conf with the two strategy options given
WithStrategies(conf, subject_name, reference_subject_name) ==
    [conf EXCEPT !.opts["subject.name.strategy"] = subject_name,
                 !.opts["reference.subject.name.strategy"] = reference_subject_name]

SerializerConfs ==
    {WithStrategies(Conf(depr, auto, latest, skip), sn, rn) :
        depr \in {"True", "False"}, auto \in {"absent", "False"},
        latest \in {"absent", "True"}, skip \in {"absent", "True"},
        sn \in {"absent"} \cup Callables, rn \in {"absent"} \cup Callables}

DeserializerConfs == {Conf(depr, "absent", "absent", "absent") : depr \in {"True", "False"}}

Contexts == {[topic |-> t, field |-> "value"] : t \in {"orders", "audit"}}

\* the messages handed to the serializer: of the bound class, None, or of
\* another class
MessageInputs == Messages \cup {"None", "other_class"}

\* the strategies of a conf are the default ones
DefaultStrategies(c) ==
    /\ c.opts["subject.name.strategy"] = "absent"
    /\ c.opts["reference.subject.name.strategy"] = "absent"

\* the serializers of the specification: one bound type under the current
\* format; without dependencies in every mode; with every dependency graph
\* when registering, the graphs that hold a well-known file with
\* skip.known.types and the others without; the first graph also when
\* looking up and under strategies that are not the default
Paired(t, c, dc) ==
    /\ t.descriptor = 3
    /\ c.opts["use.deprecated.format"] = "False"
    /\ dc.opts["use.deprecated.format"] = "False"
    /\ \/ /\ t.proto.dependencies = <<<<>>>>
          /\ c.opts["skip.known.types"] = "absent"
          /\ DefaultStrategies(c)
       \/ /\ t.proto.dependencies # <<<<>>>>
          /\ c.opts["use.latest.version"] = "absent"
          /\ c.opts["skip.known.types"] = "True"
               <=> \E f \in 1..Len(t.proto.name) : StartsWithGoogleProtobuf(t.proto.name[f])
          /\ \/ c.opts["auto.register.schemas"] = "absent"
             \/ t.proto = ProtoABCD
          /\ \/ DefaultStrategies(c)
             \/ /\ t.proto = ProtoABCD
                /\ c.opts["auto.register.schemas"] = "absent"
                /\ c.opts["skip.known.types"] = "absent"
                /\ \/ c.opts["subject.name.strategy"] = "absent"
                   \/ c.opts["reference.subject.name.strategy"] = "absent"

\* the serializers and deserializers of the wire specification: every bound
\* type, in every mode, with either format on either side, without
\* dependencies or, when registering, with the first graph
PairedWire(t, c, dc) ==
    /\ c.opts["skip.known.types"] = "absent"
    /\ DefaultStrategies(c)
    /\ \/ t.proto.dependencies = <<<<>>>>
       \/ /\ t.proto = ProtoABCD
          /\ c.opts["auto.register.schemas"] = "absent"
          /\ c.opts["use.latest.version"] = "absent"

InitObjects ==
    \E t \in MsgTypes, c \in SerializerConfs, dc \in DeserializerConfs :
        /\ Paired(t, c, dc)
        /\ ProtobufSerializer_init(t, c).err = "none"
        /\ ser = ProtobufSerializer_init(t, c)
        /\ deser = ProtobufDeserializer_init(t, dc)

InitObjectsWire ==
    \E t \in MsgTypes, c \in SerializerConfs, dc \in DeserializerConfs :
        /\ PairedWire(t, c, dc)
        /\ ProtobufSerializer_init(t, c).err = "none"
        /\ ser = ProtobufSerializer_init(t, c)
        /\ deser = ProtobufDeserializer_init(t, dc)

NoCallYet ==
    /\ frames = [c \in Callers |-> IdleFrame]
    /\ wire = NoWire
    /\ received = NotRun
    /\ succeeded = {}
    /\ VarintIdle
    /\ IndexIdle
    /\ DeserIdle
    /\ ConfigIdle

Init == InitObjects /\ NoCallYet

InitWire == InitObjectsWire /\ NoCallYet

\* the calls in progress when caller c begins a call are not alone, and the
\* call of c is alone if there is none
Overlapped(c, frame) ==
    [d \in Callers |->
        IF d = c
        THEN [frame EXCEPT !.alone = \A e \in Callers \ {c} : frames[e].pc = "idle"]
        ELSE IF frames[d].pc = "idle" THEN frames[d]
        ELSE [frames[d] EXCEPT !.alone = FALSE]]

\* a part of the call of caller c has run, with result r
Ran(c, r) ==
    /\ ser' = r.obj
    /\ frames' = [frames EXCEPT ![c] = r.frame]
    /\ wire' = IF r.out.ran THEN r.out ELSE wire
    /\ received' = IF r.out.ran THEN NotRun ELSE received
    /\ succeeded' = IF r.out.ran /\ r.out.err = "none" /\ r.out.ret # NoneValue
                    THEN succeeded \cup {r.out.subject} ELSE succeeded
    /\ UNCHANGED <<deser, varintVars, indexVars, deserVars, configVars>>

\* caller c calls the serializer with one of messages
Begin(c, messages) ==
    /\ frames[c].pc = "idle"
    /\ \E message \in messages, ctx \in Contexts :
          \E r \in {ProtobufSerializer_call_begin(ser, message, ctx, succeeded)} :
              \E alone \in {\A e \in Callers \ {c} : frames[e].pc = "idle"} :
                  /\ ser' = r.obj
                  /\ frames' = Overlapped(c, r.frame)
                  /\ wire' = IF r.out.ran THEN [r.out EXCEPT !.alone = alone] ELSE wire
                  /\ received' = IF r.out.ran THEN NotRun ELSE received
                  /\ UNCHANGED <<succeeded, deser, varintVars, indexVars, deserVars,
                                 configVars>>

\* the store call of a dependency returns or raises
DependencyStoreCall(c) ==
    /\ frames[c].pc = "dependencies"
    /\ \E raised \in BOOLEAN :
          \E r \in {ProtobufSerializer_call_dependency(ser, frames[c], raised)} : Ran(c, r)

AssignReferences(c) ==
    /\ frames[c].pc = "references"
    /\ \E r \in {ProtobufSerializer_call_references(ser, frames[c])} : Ran(c, r)

\* the store is called for the subject
SubjectStoreCall(c) ==
    /\ frames[c].pc = "store"
    /\ \E r \in {ProtobufSerializer_call_store(ser, frames[c])} : Ran(c, r)

\* the store call for the subject returns or raises
SubjectStoreReturn(c) ==
    /\ frames[c].pc = "waiting"
    /\ \E raised \in BOOLEAN :
          \E r \in {ProtobufSerializer_call_store_return(ser, frames[c], raised)} : Ran(c, r)

AddKnownSubject(c) ==
    /\ frames[c].pc = "known"
    /\ \E r \in {ProtobufSerializer_call_known(ser, frames[c])} : Ran(c, r)

WriteEnvelope(c) ==
    /\ frames[c].pc = "write"
    /\ \E r \in {ProtobufSerializer_call_write(ser, frames[c])} : Ran(c, r)

Serialize(c, messages) ==
    \/ Begin(c, messages)
    \/ DependencyStoreCall(c)
    \/ AssignReferences(c)
    \/ SubjectStoreCall(c)
    \/ SubjectStoreReturn(c)
    \/ AddKnownSubject(c)
    \/ WriteEnvelope(c)

Deserialize ==
    /\ wire.ran
    /\ wire.err = "none"
    /\ received' = ProtobufDeserializer_call(deser, wire.ret)
    /\ UNCHANGED <<ser, deser, frames, wire, succeeded, varintVars, indexVars, deserVars,
                   configVars>>

\* the message of the callers that share the serializer
SharedMessageInputs == {"m_field1"}

\* two callers on one serializer
Next == \E c \in Callers : Serialize(c, SharedMessageInputs)

Spec == Init /\ [][Next]_vars

\* one caller, every message, and the deserializer
NextWire == Serialize("A", MessageInputs) \/ Deserialize

SpecWire == InitWire /\ [][NextWire]_vars

\* the read position after the envelope's header and index: what is left is
\* the payload
PayloadStart(value, message) == Len(value) - Len(SerializeToString(message))

\* C1: with a serializer and a deserializer of the same use.deprecated.format,
\* the deserializer applied to the bytes the serializer returned for a message
\* m of the bound type consumes the magic byte, the id and the whole index,
\* hands exactly m's encoded payload to the payload decoder, and returns m.
C1_RoundTrip ==
    (/\ received # NotRun
     /\ wire.message \in Messages
     /\ ser._use_deprecated_format = deser._use_deprecated_format)
        => /\ received.err = "none"
           /\ received.pos = PayloadStart(wire.ret, wire.message)
           /\ received.parsed = SerializeToString(wire.message)
           /\ received.msg = wire.message

\* a message whose payload begins with a continuation byte, of a nested type,
\* under the larger schema id and the current format, has been read back
C1_Witness ==
    /\ received # NotRun
    /\ received.err = "none"
    /\ wire.message = "m_field16"
    /\ Len(ser._msg_index) = 2
    /\ ser._schema_id = RegisteredId("audit-value")
    /\ ~ser._use_deprecated_format
    /\ ~deser._use_deprecated_format

\* C2: once a serialize call for a subject has succeeded, a serialize call
\* for that subject begun later issues no store call, whatever was resolved
\* for other subjects in between or is being resolved by another caller: the
\* call goes from its begin to the envelope, and ends with no store call.
C2_KnownSubjectNoStoreCall ==
    /\ (wire.ran /\ wire.prior_success) => wire.calls = <<>>
    /\ \A c \in Callers :
          (frames[c].pc # "idle" /\ frames[c].prior_success)
              => (frames[c].pc = "write" /\ frames[c].calls = <<>>)

\* a call for a subject that had succeeded before has ended while another
\* caller waits in the store for the other subject, after both subjects had
\* been resolved: the id the serializer holds is the other subject's
C2_Witness ==
    /\ wire.ran
    /\ wire.prior_success
    /\ ~wire.alone
    /\ wire.err = "none"
    /\ ser._schema_id # RegisteredId(wire.subject)
    /\ Cardinality(succeeded) = 2
    /\ \E c \in Callers : frames[c].pc = "store" /\ frames[c].subject # wire.subject

\* file A depends on [B, C], B on [D], C and D on nothing, and no file is
\* skipped; the latest call resolved the dependencies and stored the schema
ResolvedABCD ==
    /\ wire.ran
    /\ wire.err = "none"
    /\ wire.calls # <<>>
    /\ ~ser._use_latest_version
    /\ ser._msg_class.proto.dependencies = ProtoABCD.dependencies
    /\ \/ ~ser._skip_known_types
       \/ \A f \in 1..4 : ~StartsWithGoogleProtobuf(ser._msg_class.proto.name[f])

\* the file names of a reference list, in order
RefNames(refs) == [i \in 1..Len(refs) |-> refs[i].name]

\* the elements of seq, in order, each once
RECURSIVE Distinct(_)
Distinct(seq) ==
    IF seq = <<>> THEN <<>>
    ELSE LET rest == Distinct(SubSeq(seq, 1, Len(seq) - 1))
         IN  IF \E i \in 1..Len(rest) : rest[i] = seq[Len(seq)]
             THEN rest ELSE Append(rest, seq[Len(seq)])

\* the files whose schemas the store calls carry, in order, each once
CallFiles(calls) == Distinct([i \in 1..Len(calls) |-> calls[i].schema.schema_str])

\* C3 as stated: the reference list returned for A and stored as the
\* top-level schema's references is [D, B, C].
C3_ReferencesDBC ==
    ResolvedABCD =>
        LET name == ser._msg_class.proto.name
        IN  /\ RefNames(ser._schema.references) = <<name[4], name[2], name[3]>>
            /\ RefNames(wire.calls[Len(wire.calls)].schema.references)
                   = <<name[4], name[2], name[3]>>

\* C3: the reference list returned for A and stored as the top-level schema's
\* references is [B, C], the files A names, in that order; the reference to D
\* is in the reference list of B's schema alone, and the store is called for
\* D, then B, then C, then the top-level subject.
C3_ReferencesBC ==
    ResolvedABCD =>
        LET name == ser._msg_class.proto.name
            top  == wire.calls[Len(wire.calls)]
        IN  /\ RefNames(ser._schema.references) = <<name[2], name[3]>>
            /\ top.subject = wire.subject
            /\ CallFiles(wire.calls) = <<4, 2, 3, 1>>
            /\ \A i \in 1..Len(wire.calls) :
                  RefNames(wire.calls[i].schema.references) =
                      IF wire.calls[i].schema.schema_str = 1 THEN <<name[2], name[3]>>
                      ELSE IF wire.calls[i].schema.schema_str = 2 THEN <<name[4]>>
                      ELSE <<>>

\* A's dependencies have been resolved with registration on by a call that
\* another call overlapped, and the references hold the versions the store
\* gave for B and C
C3_Witness ==
    /\ ResolvedABCD
    /\ ser._auto_register
    /\ ~wire.alone
    /\ Len(wire.calls) = 7
    /\ ser._schema.references =
           <<SchemaReference("b.proto", "b.proto", RegisteredVersion("b.proto")),
             SchemaReference("c.proto", "c.proto", RegisteredVersion("c.proto"))>>

\* the four id bytes of an envelope, after its magic byte
EnvelopeId(value) == SubSeq(value, 2, HeaderLength)

\* the four bytes of the id the store returns for a subject
StoreIdBytes(subject) == SubSeq(Pack_bI(_MAGIC_BYTE, RegisteredId(subject)), 2, HeaderLength)

\* C11: the schema id written in the envelope of every successful serialize
\* call is the id the store returned for that call's own subject, also when the
\* subject was resolved in an earlier call and other subjects were resolved
\* since.
C11_IdOfOwnSubject ==
    (wire.ran /\ wire.err = "none" /\ wire.message \in Messages)
        => EnvelopeId(wire.ret) = StoreIdBytes(wire.subject)

\* the store calls of the latest serialize call, made by a serializer that
\* registers, for a subject it had not resolved
FirstUseRegistering ==
    /\ wire.ran
    /\ wire.calls # <<>>
    /\ ser._auto_register

\* a store call that returned
Completed(call) == ~call.raised

\* the references of the i-th store call come from a register_schema and then
\* a lookup_schema for their subject, both completed earlier in the sequence,
\* and carry the version that lookup returned
ReferencesRegistered(calls, i) ==
    \A x \in 1..Len(calls[i].schema.references) :
        LET ref == calls[i].schema.references[x]
        IN  \E j, k \in 1..(i - 1) :
                /\ j < k
                /\ calls[j].op = "register_schema"
                /\ calls[k].op = "lookup_schema"
                /\ calls[j].subject = ref.subject
                /\ calls[k].subject = ref.subject
                /\ Completed(calls[j])
                /\ Completed(calls[k])
                /\ ref.version =
                       lookup_schema(ref.subject, calls[k].schema, FALSE).version

\* the i-th store call carries the schema of the bound type's own file
OwnSchema(calls, i) == calls[i].schema.schema_str = ser._msg_class.proto.root

\* C12: with auto-register, in the store calls of one first-use serialize
\* call, every register_schema call carries references whose subject and
\* version come from a register_schema and then a lookup_schema for that
\* subject, both completed earlier in the sequence; a dependency's register
\* call comes right before its lookup call; and the bound type's own schema is
\* registered last, after all its dependencies.  The order of the calls and
\* the references of every dependency's register call hold also for a call
\* that other calls on the serializer overlap; the references of the bound
\* type's own register call, which go through the serializer's schema, are
\* stated for a call that runs as the calls of one instance are meant to,
\* with no other call in progress.
C12_BottomUpRegistration ==
    FirstUseRegistering =>
        LET calls == wire.calls
            n     == Len(calls)
        IN  /\ \A i \in 1..n :
                  (calls[i].op = "register_schema" /\ ~OwnSchema(calls, i))
                      => ReferencesRegistered(calls, i)
            /\ \A i \in 1..n :
                  (calls[i].op = "register_schema" /\ OwnSchema(calls, i) /\ wire.alone)
                      => ReferencesRegistered(calls, i)
            /\ \A k \in 1..n :
                  calls[k].op = "lookup_schema" =>
                      /\ k > 1
                      /\ calls[k - 1].op = "register_schema"
                      /\ calls[k - 1].subject = calls[k].subject
                      /\ calls[k - 1].schema = calls[k].schema
                      /\ ~OwnSchema(calls, k)
            /\ \A i \in 1..n : OwnSchema(calls, i) => i = n
            /\ wire.err = "none" =>
                  /\ calls[n].op = "register_schema"
                  /\ calls[n].subject = wire.subject
                  /\ OwnSchema(calls, n)

\* a first-use call over a graph in which two files name the same
\* dependency: nine store calls, the dependency registered under each
C12_Witness ==
    /\ FirstUseRegistering
    /\ wire.alone
    /\ wire.err = "none"
    /\ Len(wire.calls) = 9
    /\ Len(wire.calls[9].schema.references) = 2

(***************************************************************************)
(* _create_msg_index on inconsistent type trees: every type still names    *)
(* its enclosing type, and some types are missing from the nested-type     *)
(* list of their enclosing type or from the file's top-level types.        *)
(***************************************************************************)
\* seq without the elements of dropped
RECURSIVE Without(_, _)
Without(seq, dropped) ==
    IF seq = <<>> THEN <<>>
    ELSE IF Head(seq) \in dropped THEN Without(Tail(seq), dropped)
    ELSE <<Head(seq)>> \o Without(Tail(seq), dropped)

\* file with the types of lost taken out of the lists that should hold them
Detached(file, lost) ==
    [message_types_by_name |-> Without(file.message_types_by_name,
                                       {file.name[t] : t \in lost}),
     containing_type       |-> file.containing_type,
     nested_types          |-> [k \in TypesOf(file) |-> Without(file.nested_types[k], lost)],
     name                  |-> file.name]

\* the types lost from a file: at most this many
MaxLost == 2

\* the sets of types that may be lost from a file
LostSets(file) == {x \in SUBSET TypesOf(file) : x # {} /\ Cardinality(x) <= MaxLost}

InitTree ==
    /\ \E w \in WellFormedFiles : \E lost \in LostSets(w) : ifile = Detached(w, lost)
    /\ idesc \in TypesOf(ifile)
    /\ izig = FALSE
    /\ iindex = [err |-> "none", index |-> <<>>]
    /\ iencoded = [err |-> "none", ret |-> FALSE, buf |-> <<>>]
    /\ idecoded = [err |-> "none", index |-> <<>>, buf |-> [data |-> <<>>, pos |-> 0]]
    /\ ipc = "start"
    /\ VarintIdle
    /\ DeserIdle
    /\ ConfigIdle
    /\ ObjectIdle

NextTree == IndexCompute

SpecTree == InitTree /\ [][NextTree]_vars

\* t is where it should be: in the nested-type list of its enclosing type,
\* or among the file's top-level types
Listed(file, t) ==
    IF file.containing_type[t] = NoType
    THEN FirstPos(file.message_types_by_name, file.name[t]) > 0
    ELSE FirstPos(file.nested_types[file.containing_type[t]], t) > 0

\* some type on the walk from t up to its outermost enclosing type is not
\* where it should be
RECURSIVE BrokenWalk(_, _)
BrokenWalk(file, t) ==
    \/ ~Listed(file, t)
    \/ /\ file.containing_type[t] # NoType
       /\ BrokenWalk(file, file.containing_type[t])

\* C13: _create_msg_index raises for every inconsistent type tree, at
\* whatever level of the upward walk a type is not found, and never returns
\* an index that lacks an element.
C13_RaisesAtAnyLevel ==
    (ipc = "indexed" /\ BrokenWalk(ifile, idesc)) =>
        /\ iindex.err = "ValueError"
        /\ ~(iindex.err = "none" /\ Len(iindex.index) < Depth(ifile, idesc) + 1)

\* some store call of the sequence raised
SomeRaised(calls) == \E i \in 1..Len(calls) : calls[i].raised

\* the call of caller c ends in this step
Ended(c) == frames[c].pc # "idle" /\ frames'[c].pc = "idle"

\* the call that caller c begins in this step goes on
Began(c) == frames[c].pc = "idle" /\ frames'[c].pc # "idle"

\* the call of caller c has come back from the store call that returns the
\* id for its subject, and from all the store calls before it
Stored(obj, frame) ==
    /\ frame.calls # <<>>
    /\ ~SomeRaised(frame.calls)
    /\ frame.calls[Len(frame.calls)].subject = frame.subject
    /\ frame.calls[Len(frame.calls)].op = TopLevelOp(obj)

\* every known subject is the subject of a call that returned an envelope,
\* or of a call in progress that has come back from its store call for it
KnownWasStored ==
    ser._known_subjects \subseteq
        (succeeded \cup {frames[c].subject : c \in
                            {d \in Callers : /\ frames[d].pc = "write"
                                             /\ Stored(ser, frames[d])}})

\* one step of a serialize call: the serializer, the frames and the latest
\* result before it, and the primed ones after it
C14_Step ==
    /\ \A s \in ser'._known_subjects \ ser._known_subjects :
          \E c \in Callers :
              /\ frames[c].pc = "known"
              /\ frames[c].subject = s
              /\ Stored(ser, frames[c])
    /\ \A c \in Callers :
          (Ended(c) /\ SomeRaised(wire'.calls)) =>
              /\ wire'.err = "SchemaRegistryError"
              /\ wire'.ret = NoneValue
              /\ ser'._known_subjects = ser._known_subjects
              /\ wire'.alone => wire'.subject \notin ser'._known_subjects
    /\ \A c \in Callers :
          (/\ wire.ran
           /\ wire.err = "SchemaRegistryError"
           /\ wire.alone
           /\ \A d \in Callers : frames[d].pc = "idle"
           /\ Began(c)
           /\ frames'[c].subject = wire.subject)
              => frames'[c].pc \in {"dependencies", "references", "store"}

\* C14: with store calls that may fail, in any sequence of serialize calls a
\* subject is in _known_subjects only if the store call that returns the
\* top-level schema id for it completed (and the calls before it in that
\* serialize call did), also while other calls are in progress; a serialize
\* call in which a store call fails raises, returns no bytes and leaves the
\* set as it was, without its subject when no other call overlapped it; and
\* the serialize call for that subject that comes next calls the store again.
C14_KnownOnlyAfterStoreSuccess ==
    /\ []KnownWasStored
    /\ [][C14_Step]_vars

\* a call that no other call overlapped failed at the store call for the
\* top-level schema, after its three dependencies were registered and looked
\* up, on a serializer that knows the other subject
C14_Witness ==
    /\ wire.ran
    /\ wire.err = "SchemaRegistryError"
    /\ wire.alone
    /\ Len(wire.calls) = 7
    /\ wire.calls[7].subject = wire.subject
    /\ wire.calls[7].raised
    /\ wire.subject \notin ser._known_subjects
    /\ ser._known_subjects # {}
====
